---------------------------- MODULE Spec2Model ----------------------------
(***************************************************************************)
(* Model of the data-access layer of gestao-clinica: the appointment       *)
(* repository, the statistics, the configuration and the connection scope  *)
(* of src/db.py over its SQLite store; the sanitizer, the validators, the  *)
(* file namer and the audit logger of src/security.py; and, of src/app.py, *)
(* the upload form and the Excluir / Desfazer bar of the appointments page.*)
(*                                                                         *)
(* Text values are sequences of one-character strings, so that strip(),    *)
(* strptime() and SQLite's text comparison are computed character by       *)
(* character, as the code computes them.  SQL NULL / Python None is the    *)
(* one-element tuple NULL.  Enumerated texts whose characters no operation *)
(* inspects (modality, status, file references) are one-element tuples.    *)
(***************************************************************************)
EXTENDS Integers, Sequences, FiniteSets, TLC

(***************************************************************************)
(* Bounds of the model.                                                    *)
(***************************************************************************)
\* number of steps explored that change the store or its clock: committed
\* writes and clock ticks
MaxOps == 3

\* length of the texts given to sanitize_input
MaxLen == 4

(***************************************************************************)
(* Text                                                                    *)
(***************************************************************************)
NULL == <<"NULL">>

Digit == {"0", "1", "2", "3", "4", "5", "6", "7", "8", "9"}

\* numeric value of a decimal digit
DigitVal(c) ==
    CASE c = "0" -> 0 [] c = "1" -> 1 [] c = "2" -> 2 [] c = "3" -> 3
      [] c = "4" -> 4 [] c = "5" -> 5 [] c = "6" -> 6 [] c = "7" -> 7
      [] c = "8" -> 8 [] c = "9" -> 9

\* byte value of a character (ASCII), the order SQLite's BINARY collation uses
Ord(c) ==
    CASE c = " " -> 32 [] c = "-" -> 45 [] c = "/" -> 47 [] c = ":" -> 58
      [] c \in Digit -> 48 + DigitVal(c)
      [] c = "A" -> 65 [] c = "B" -> 66 [] c = "P" -> 80 [] c = "Q" -> 81
      [] OTHER -> 120

\* str.strip(): remove leading and trailing whitespace
RECURSIVE LStrip(_)
LStrip(s) == IF s # <<>> /\ Head(s) = " " THEN LStrip(Tail(s)) ELSE s

RECURSIVE RStrip(_)
RStrip(s) ==
    IF s # <<>> /\ s[Len(s)] = " " THEN RStrip(SubSeq(s, 1, Len(s) - 1)) ELSE s

Strip(s) == RStrip(LStrip(s))

\* re.sub(r'[<>"\'\&\;]', '', s): the characters sanitize_input removes
Denylist == {"<", ">", "\"", "'", "&", ";"}

Remover(s) == SelectSeq(s, LAMBDA c : c \notin Denylist)

\* s[:n]; a negative n counts from the end
Truncar(s, n) ==
    IF n < 0 THEN SubSeq(s, 1, Len(s) + n)
    ELSE IF Len(s) <= n THEN s ELSE SubSeq(s, 1, n)

\* ' '.join(s.split()): runs of whitespace become one space, and those at
\* either end disappear
RECURSIVE Colapsar(_)
Colapsar(s) ==
    IF s = <<>> THEN <<>>
    ELSE IF Head(s) # " " THEN <<Head(s)>> \o Colapsar(Tail(s))
    ELSE IF Tail(s) = <<>> \/ Head(Tail(s)) = " " THEN Colapsar(Tail(s))
    ELSE <<" ">> \o Colapsar(Tail(s))

JoinSplit(s) == LStrip(Colapsar(s))

\* default of the max_length parameter of sanitize_input
max_length == 200

\* the steps in another order: the cut to max_length comes last
sanitize_input_corte_final(input_str, n) ==
    IF input_str \in {NULL, <<>>} THEN <<>>
    ELSE Truncar(Strip(JoinSplit(Remover(input_str))), n)

\* sanitize_input: remove the denied characters, cut to max_length, collapse
\* whitespace, strip -- in this order
sanitize_input(input_str, n) ==
    IF input_str \in {NULL, <<>>} THEN <<>>
    ELSE Strip(JoinSplit(Truncar(Remover(input_str), n)))

\* log_access(action, details): one record appended to security.log
log_access(log, action, details) ==
    Append(log, [action |-> action, details |-> details])

\* memcmp order of two TEXT values: a < b
RECURSIVE TextLess(_, _)
TextLess(a, b) ==
    IF a = <<>> THEN b # <<>>
    ELSE IF b = <<>> THEN FALSE
    ELSE IF Head(a) = Head(b) THEN TextLess(Tail(a), Tail(b))
    ELSE Ord(Head(a)) < Ord(Head(b))

(***************************************************************************)
(* datetime.strptime                                                       *)
(***************************************************************************)
\* value of a token of digits, a leading space counting as nothing
RECURSIVE TokVal(_)
TokVal(t) ==
    IF t = <<>> THEN 0
    ELSE IF t[Len(t)] = " " THEN 0
    ELSE 10 * TokVal(SubSeq(t, 1, Len(t) - 1)) + DigitVal(t[Len(t)])

AllDigits(t) == \A i \in 1..Len(t) : t[i] \in Digit

\* %d : 3[0-1] | [1-2]\d | 0[1-9] | [1-9] | " "[1-9]
TokD(t) ==
    \/ Len(t) = 2 /\ AllDigits(t) /\ TokVal(t) \in 1..31
    \/ Len(t) = 1 /\ AllDigits(t) /\ TokVal(t) \in 1..9
    \/ Len(t) = 2 /\ t[1] = " " /\ t[2] \in Digit /\ DigitVal(t[2]) \in 1..9

\* %m : 1[0-2] | 0[1-9] | [1-9]
TokM(t) ==
    \/ Len(t) = 2 /\ AllDigits(t) /\ TokVal(t) \in 1..12
    \/ Len(t) = 1 /\ AllDigits(t) /\ TokVal(t) \in 1..9

\* %Y : \d\d\d\d
TokY(t) == Len(t) = 4 /\ AllDigits(t)

\* %H : 2[0-3] | [0-1]\d | \d
TokH(t) ==
    \/ Len(t) = 2 /\ AllDigits(t) /\ TokVal(t) \in 0..23
    \/ Len(t) = 1 /\ AllDigits(t)

\* %M : [0-5]\d | \d
TokMin(t) ==
    \/ Len(t) = 2 /\ AllDigits(t) /\ TokVal(t) \in 0..59
    \/ Len(t) = 1 /\ AllDigits(t)

IsLeap(y) == (y % 4 = 0 /\ y % 100 # 0) \/ y % 400 = 0

DaysInMonth(y, m) ==
    IF m = 2 THEN (IF IsLeap(y) THEN 29 ELSE 28)
    ELSE IF m \in {4, 6, 9, 11} THEN 30 ELSE 31

\* the <<day, month, year>> triples strptime(s, "%d/%m/%Y") can return:
\* empty when it raises ValueError
ParseDate(s) ==
    { <<TokVal(SubSeq(s, 1, i - 1)),
        TokVal(SubSeq(s, i + 1, j - 1)),
        TokVal(SubSeq(s, j + 1, Len(s)))>> :
      <<i, j>> \in { p \in (1..Len(s)) \X (1..Len(s)) :
                      /\ p[1] < p[2]
                      /\ s[p[1]] = "/" /\ s[p[2]] = "/"
                      /\ TokD(SubSeq(s, 1, p[1] - 1))
                      /\ TokM(SubSeq(s, p[1] + 1, p[2] - 1))
                      /\ TokY(SubSeq(s, p[2] + 1, Len(s)))
                      /\ TokVal(SubSeq(s, p[2] + 1, Len(s))) >= 1
                      /\ TokVal(SubSeq(s, 1, p[1] - 1)) <=
                           DaysInMonth(TokVal(SubSeq(s, p[2] + 1, Len(s))),
                                       TokVal(SubSeq(s, p[1] + 1, p[2] - 1))) } }

\* the <<hour, minute>> pairs strptime(s, "%H:%M") can return
ParseTime(s) ==
    { <<TokVal(SubSeq(s, 1, i - 1)), TokVal(SubSeq(s, i + 1, Len(s)))>> :
      i \in { k \in 1..Len(s) :
                /\ s[k] = ":"
                /\ TokH(SubSeq(s, 1, k - 1))
                /\ TokMin(SubSeq(s, k + 1, Len(s))) } }

_validar_formato_data(data) == ParseDate(data) # {}

_validar_formato_hora(hora) == ParseTime(hora) # {}

(***************************************************************************)
(* Values the callers supply                                               *)
(***************************************************************************)
d_05_01_2025 == <<"0", "5", "/", "0", "1", "/", "2", "0", "2", "5">>
d_20_12_2024 == <<"2", "0", "/", "1", "2", "/", "2", "0", "2", "4">>
d_05_01_2024 == <<"0", "5", "/", "0", "1", "/", "2", "0", "2", "4">>
\* April has 30 days
d_31_04_2024 == <<"3", "1", "/", "0", "4", "/", "2", "0", "2", "4">>
\* day and month without the leading zero
d_1_1_2024 == <<"1", "/", "1", "/", "2", "0", "2", "4">>
\* ISO form
d_iso == <<"2", "0", "2", "4", "-", "0", "1", "-", "0", "5">>

d_15_03_2024 == <<"1", "5", "/", "0", "3", "/", "2", "0", "2", "4">>
d_10_02_2024 == <<"1", "0", "/", "0", "2", "/", "2", "0", "2", "4">>
d_25_01_2024 == <<"2", "5", "/", "0", "1", "/", "2", "0", "2", "4">>
d_01_02_2024 == <<"0", "1", "/", "0", "2", "/", "2", "0", "2", "4">>
d_20_02_2024 == <<"2", "0", "/", "0", "2", "/", "2", "0", "2", "4">>

h_09_00 == <<"0", "9", ":", "0", "0">>
h_23_59 == <<"2", "3", ":", "5", "9">>
h_24_00 == <<"2", "4", ":", "0", "0">>
h_9_5 == <<"9", ":", "5">>

Admissional == <<"Admissional">>
Periodico == <<"Periodico">>
Agendado == <<"Agendado">>
Concluido == <<"Concluido">>
Cancelado == <<"Cancelado">>
Demissional == <<"Demissional">>
Retorno == <<"Retorno">>

\* the values of the enumeration ModalidadeAtendimento
Modalidades == {Admissional, Periodico, Demissional, Retorno}

\* the status values the forms offer
StatusValidos == {Agendado, Concluido, Cancelado}
laudo_ref == <<"laudo.pdf">>
avaliacao_ref == <<"avaliacao.pdf">>
obs_text == <<"Q", "<", " ", " ", "P">>
Outra == <<"Outra">>

\* the arguments of the inserir_atendimento calls explored
InsertInputs ==
    { [empresa |-> <<"A">>, nome |-> <<"P">>, modalidade |-> Admissional,
       data |-> d_05_01_2025, hora |-> h_09_00, laudo_pdf |-> NULL,
       avaliacao_pdf |-> NULL, observacoes |-> NULL],
      [empresa |-> <<" ", "B", " ">>, nome |-> <<"Q", " ">>, modalidade |-> Periodico,
       data |-> d_20_12_2024, hora |-> h_23_59, laudo_pdf |-> laudo_ref,
       avaliacao_pdf |-> NULL, observacoes |-> obs_text],
      [empresa |-> <<"A">>, nome |-> <<"Q">>, modalidade |-> Admissional,
       data |-> d_05_01_2024, hora |-> h_23_59, laudo_pdf |-> NULL,
       avaliacao_pdf |-> avaliacao_ref, observacoes |-> NULL],
      [empresa |-> <<"A">>, nome |-> <<"P">>, modalidade |-> Admissional,
       data |-> d_31_04_2024, hora |-> h_09_00, laudo_pdf |-> NULL,
       avaliacao_pdf |-> NULL, observacoes |-> NULL],
      [empresa |-> <<"A">>, nome |-> <<"P">>, modalidade |-> Admissional,
       data |-> d_05_01_2025, hora |-> h_24_00, laudo_pdf |-> NULL,
       avaliacao_pdf |-> NULL, observacoes |-> NULL],
      [empresa |-> <<"B">>, nome |-> <<" ">>, modalidade |-> Outra,
       data |-> d_1_1_2024, hora |-> h_9_5, laudo_pdf |-> NULL,
       avaliacao_pdf |-> NULL, observacoes |-> NULL],
      [empresa |-> <<"A">>, nome |-> <<"P">>, modalidade |-> NULL,
       data |-> d_05_01_2025, hora |-> h_09_00, laudo_pdf |-> NULL,
       avaliacao_pdf |-> NULL, observacoes |-> NULL] }

\* the **campos dictionaries of the atualizar_atendimento calls explored
UpdateInputs ==
    { [status |-> Concluido],
      [data |-> d_iso],
      [hora |-> h_24_00, laudo_pdf |-> laudo_ref],
      [foo |-> <<"x">>],
      [status |-> Cancelado, foo |-> <<"x">>, id |-> <<"9">>,
       data_criacao |-> <<"0">>],
      [empresa |-> NULL],
      [x \in {} |-> NULL] }

\* where a storage error (sqlite3.Error: locked, busy, disk) strikes a call
Faults == {"none", "store"}

\* inserir_atendimento runs two statements: the error may strike the call as
\* a whole, or only the INSERT into empresas, where it is caught
InsertFaults == Faults \cup {"empresas"}

(***************************************************************************)
(* State                                                                   *)
(***************************************************************************)
VARIABLES
    atendimentos,       \* table atendimentos: a set of rows
    empresas,           \* table empresas: a set of rows
    configuracoes,      \* table configuracoes: a set of rows
    seq,                \* sqlite_sequence: table name -> last AUTOINCREMENT id
    clock,              \* CURRENT_TIMESTAMP of the store
    ret,                \* what the last call returned and logged
    issued,             \* history: every appointment id an insert ever assigned
    issuedSinceClear,   \* history: ids assigned since the last limpar_dados_teste
    nops,               \* history: number of committed writes and clock ticks
    security_log,       \* the records log_access appended to security.log
    leitor,             \* a second session inside obter_estatisticas
    escopo,             \* a caller's `with get_db_connection() as conn:` block
    puro,               \* a function of src/security.py applied to an argument
    arquivos,           \* the uploads directory and the names generated for it
    ui                  \* the appointments page of one browser session

vars == <<atendimentos, empresas, configuracoes, seq, clock, ret, issued,
          issuedSinceClear, nops, security_log, leitor, escopo, puro, arquivos, ui>>

store == <<atendimentos, empresas, configuracoes, seq>>

hist == <<issued, issuedSinceClear>>

\* what a repository call of the first session never touches: no function of
\* src/db.py or src/app.py calls log_access, and a call runs in its own
\* connection
sess == <<security_log, leitor, escopo, puro, arquivos, ui>>

\* what neither the statistics of a second session nor a get_db_connection
\* block touches
pagina == <<puro, arquivos, ui>>

\* the second session is outside obter_estatisticas
LeitorParado == [pc |-> 0, est |-> <<>>]

\* no get_db_connection block is open
EscopoFechado ==
    [pc |-> "fora", conn |-> "nenhuma", pend |-> {}, erro |-> "nenhum",
     eventos |-> <<>>]

\* no function has been applied
PuroParado == [f |-> "nenhuma", arg |-> <<>>, res |-> <<>>]

\* the uploads directory is empty and no name has been generated
ArquivosVazio == [uploads |-> {}, nomes |-> <<>>, salvos |-> 0]

\* the page has not been rendered and session_state is empty.
\* last_deleted_snapshot is the set of the values session_state holds under
\* that key: none or one.  antes, antes_nops and excluiu are history: the
\* table and the number of writes when "Excluir" was last pressed, and what
\* delete_appointment returned then.
UiInicial ==
    [lida |-> FALSE, appointments |-> <<>>, last_deleted_snapshot |-> {},
     antes |-> {}, antes_nops |-> 0, excluiu |-> FALSE]

\* the columns of atendimentos
Colunas ==
    {"id", "empresa", "nome", "modalidade", "data", "hora", "laudo_pdf",
     "avaliacao_pdf", "status", "observacoes", "data_criacao", "data_atualizacao"}

\* columns declared NOT NULL
NotNull == {"empresa", "nome", "modalidade", "data", "hora"}

clinica_nome == <<"clinica_nome">>

\* the (chave, valor, descricao) triples of the default configuration
configuracoes_padrao ==
    << <<clinica_nome, <<"Clinica">>, <<"Nome">>>>,
       << <<"clinica_endereco">>, <<>>, <<"Endereco">>>>,
       << <<"clinica_telefone">>, <<>>, <<"Telefone">>>>,
       << <<"clinica_email">>, <<>>, <<"E-mail">>>>,
       << <<"sistema_versao">>, <<"1.0.0">>, <<"Versao">>>> >>

\* a row of configuracoes
Configuracao(id, chave, valor, descricao, now) ==
    [id |-> id, chave |-> chave, valor |-> valor, descricao |-> descricao,
     data_atualizacao |-> now]

Max(S) == IF S = {} THEN 0 ELSE CHOOSE x \in S : \A y \in S : y <= x

Ids(rows) == { r.id : r \in rows }

Row(rows, i) == CHOOSE r \in rows : r.id = i

\* the return value of a call, with the message it logged
Ret(op, ok, log, rows) == [op |-> op, ok |-> ok, log |-> log, rows |-> rows]

(***************************************************************************)
(* Init: the state after `import db`, which runs init_db() on a new file   *)
(***************************************************************************)
InitSemPuro ==
    /\ atendimentos = {}
    /\ empresas = {}
    /\ configuracoes =
          { Configuracao(i, configuracoes_padrao[i][1], configuracoes_padrao[i][2],
                         configuracoes_padrao[i][3], 0) :
              i \in DOMAIN configuracoes_padrao }
    /\ seq = [atendimentos |-> 0, empresas |-> 0,
              configuracoes |-> Len(configuracoes_padrao)]
    /\ clock = 0
    /\ ret = Ret("init_db", TRUE, "inicializado", <<>>)
    /\ issued = {}
    /\ issuedSinceClear = {}
    /\ nops = 0
    /\ security_log = <<>>
    /\ leitor = LeitorParado
    /\ escopo = EscopoFechado
    /\ arquivos = ArquivosVazio
    /\ ui = UiInicial

Init == InitSemPuro /\ puro = PuroParado

(***************************************************************************)
(* inserir_atendimento                                                     *)
(***************************************************************************)
\* the rowid an INTEGER PRIMARY KEY column without AUTOINCREMENT would get
NextIdRowid(rows, last) == Max(Ids(rows)) + 1

\* the id INTEGER PRIMARY KEY AUTOINCREMENT assigns: one more than the largest
\* id the table ever held, which sqlite_sequence remembers
NextId(rows, last) == Max(Ids(rows) \cup {last}) + 1

NovoAtendimentoSemObs(a, newid, now) ==
    [id |-> newid, empresa |-> Strip(a.empresa), nome |-> Strip(a.nome),
     modalidade |-> a.modalidade, data |-> a.data, hora |-> a.hora,
     laudo_pdf |-> a.laudo_pdf, avaliacao_pdf |-> a.avaliacao_pdf,
     status |-> Agendado, observacoes |-> NULL,
     data_criacao |-> now, data_atualizacao |-> now]

\* the row INSERT INTO atendimentos writes; status and both timestamps take
\* their column defaults
NovoAtendimento(a, newid, now) ==
    [id |-> newid, empresa |-> Strip(a.empresa), nome |-> Strip(a.nome),
     modalidade |-> a.modalidade, data |-> a.data, hora |-> a.hora,
     laudo_pdf |-> a.laudo_pdf, avaliacao_pdf |-> a.avaliacao_pdf,
     status |-> Agendado, observacoes |-> a.observacoes,
     data_criacao |-> now, data_atualizacao |-> now]

\* INSERT OR REPLACE INTO empresas (nome): the row holding the name would be
\* deleted and a new row written
_registrar_empresa_replace(emps, last, nome_empresa, now) ==
    { e \in emps : e.nome # nome_empresa }
        \cup {[id |-> last + 1, nome |-> nome_empresa, data_criacao |-> now]}

\* INSERT OR IGNORE INTO empresas (nome): nome is UNIQUE
_registrar_empresa_se_nova(emps, last, nome_empresa, now) ==
    IF \E e \in emps : e.nome = nome_empresa
    THEN emps
    ELSE emps \cup {[id |-> last + 1, nome |-> nome_empresa, data_criacao |-> now]}

InsertOutcomeNoHora(a, fault) ==
    IF fault = "store" THEN "erro"
    ELSE IF ~_validar_formato_data(a.data) THEN "formato_data"
    ELSE IF a.empresa = NULL \/ a.nome = NULL THEN "erro"
    ELSE IF \E c \in NotNull : a[c] = NULL THEN "integridade"
    ELSE "inserido"

\* the message inserir_atendimento logs, which decides what it does
InsertOutcome(a, fault) ==
    IF fault = "store" THEN "erro"
    ELSE IF ~_validar_formato_data(a.data) THEN "formato_data"
    ELSE IF ~_validar_formato_hora(a.hora) THEN "formato_hora"
    ELSE IF a.empresa = NULL \/ a.nome = NULL THEN "erro"
    ELSE IF \E c \in NotNull : a[c] = NULL THEN "integridade"
    ELSE "inserido"

inserir_atendimento(a, fault) ==
    LET out == InsertOutcome(a, fault)
        newid == NextId(atendimentos, seq.atendimentos)
        emps == IF fault = "empresas"
                THEN empresas
                ELSE _registrar_empresa_se_nova(empresas, seq.empresas,
                                                Strip(a.empresa), clock)
    IN  IF out = "inserido"
        THEN /\ nops < MaxOps
             /\ atendimentos' = atendimentos \cup {NovoAtendimento(a, newid, clock)}
             /\ empresas' = emps
             /\ seq' = [seq EXCEPT !.atendimentos = newid,
                                   !.empresas = Max(Ids(emps) \cup {seq.empresas})]
             /\ issued' = issued \cup {newid}
             /\ issuedSinceClear' = issuedSinceClear \cup {newid}
             /\ nops' = nops + 1
             /\ ret' = Ret("inserir_atendimento", TRUE, out, <<>>)
             /\ UNCHANGED <<configuracoes, clock>>
        ELSE /\ ret' = Ret("inserir_atendimento", FALSE, out, <<>>)
             /\ UNCHANGED <<store, clock, hist, nops>>

(***************************************************************************)
(* atualizar_atendimento                                                   *)
(***************************************************************************)
campos_validos ==
    {"empresa", "nome", "modalidade", "data", "hora", "laudo_pdf",
     "avaliacao_pdf", "status", "observacoes"}

\* the columns the UPDATE statement assigns from **campos: the names of the
\* allow-list, the others are skipped
CamposUpdate(campos) == DOMAIN campos \cap campos_validos

RowUpdatedNoStamp(r, campos, now) ==
    [c \in DOMAIN r |-> IF c \in CamposUpdate(campos) THEN campos[c] ELSE r[c]]

\* the row after SET campo = ?, ..., data_atualizacao = CURRENT_TIMESTAMP
RowUpdated(r, campos, now) ==
    [c \in DOMAIN r |->
        IF c \in CamposUpdate(campos) THEN campos[c]
        ELSE IF c = "data_atualizacao" THEN now
        ELSE r[c]]

UpdateRowsNoWhere(rows, id_atendimento, campos, now) ==
    { RowUpdated(r, campos, now) : r \in rows }

\* the table after UPDATE atendimentos SET ... WHERE id = ?
UpdateRows(rows, id_atendimento, campos, now) ==
    { IF r.id = id_atendimento THEN RowUpdated(r, campos, now) ELSE r : r \in rows }

\* a NOT NULL column is assigned NULL: sqlite3.IntegrityError
NullViolation(campos) ==
    \E c \in CamposUpdate(campos) \cap NotNull : campos[c] = NULL

UpdateOutcomeStrict(rows, id_atendimento, campos, fault) ==
    IF DOMAIN campos = {} THEN "nenhum_campo"
    ELSE IF fault = "store" THEN "erro"
    ELSE IF DOMAIN campos \ campos_validos # {} THEN "nenhum_campo_valido"
    ELSE IF id_atendimento \notin Ids(rows) THEN "nao_encontrado"
    ELSE IF NullViolation(campos) THEN "erro"
    ELSE "atualizado"

\* the message atualizar_atendimento logs, which decides what it does
UpdateOutcome(rows, id_atendimento, campos, fault) ==
    IF DOMAIN campos = {} THEN "nenhum_campo"
    ELSE IF fault = "store" THEN "erro"
    ELSE IF CamposUpdate(campos) = {} THEN "nenhum_campo_valido"
    ELSE IF id_atendimento \notin Ids(rows) THEN "nao_encontrado"
    ELSE IF NullViolation(campos) THEN "erro"
    ELSE "atualizado"

atualizar_atendimento(id_atendimento, campos, fault) ==
    LET out == UpdateOutcome(atendimentos, id_atendimento, campos, fault)
    IN  IF out = "atualizado"
        THEN /\ nops < MaxOps
             /\ atendimentos' = UpdateRows(atendimentos, id_atendimento, campos, clock)
             /\ nops' = nops + 1
             /\ ret' = Ret("atualizar_atendimento", TRUE, out, <<>>)
             /\ UNCHANGED <<empresas, configuracoes, seq, clock, hist>>
        ELSE /\ ret' = Ret("atualizar_atendimento", FALSE, out, <<>>)
             /\ UNCHANGED <<store, clock, hist, nops>>

(***************************************************************************)
(* excluir_atendimento                                                     *)
(***************************************************************************)
DeleteOutcomeNoRowcount(rows, id_atendimento, fault) ==
    IF fault = "store" THEN "erro" ELSE "excluido"

\* the message excluir_atendimento logs, which decides what it does
DeleteOutcome(rows, id_atendimento, fault) ==
    IF fault = "store" THEN "erro"
    ELSE IF id_atendimento \notin Ids(rows) THEN "nao_encontrado"
    ELSE "excluido"

excluir_atendimento(id_atendimento, fault) ==
    LET out == DeleteOutcome(atendimentos, id_atendimento, fault)
    IN  IF out = "excluido"
        THEN /\ nops < MaxOps
             /\ atendimentos' = { r \in atendimentos : r.id # id_atendimento }
             /\ nops' = nops + 1
             /\ ret' = Ret("excluir_atendimento", TRUE, out, <<>>)
             /\ UNCHANGED <<empresas, configuracoes, seq, clock, hist>>
        ELSE /\ ret' = Ret("excluir_atendimento", FALSE, out, <<>>)
             /\ UNCHANGED <<store, clock, hist, nops>>

(***************************************************************************)
(* limpar_dados_teste, init_db                                             *)
(***************************************************************************)
\* DELETE FROM atendimentos, empresas, pacientes, logs_auditoria (the last two
\* are never written), then DELETE FROM sqlite_sequence for these tables
limpar_dados_teste(fault) ==
    IF fault = "store"
    THEN /\ ret' = Ret("limpar_dados_teste", FALSE, "erro", <<>>)
         /\ UNCHANGED <<store, clock, hist, nops>>
    ELSE /\ nops < MaxOps
         /\ atendimentos' = {}
         /\ empresas' = {}
         /\ seq' = [seq EXCEPT !.atendimentos = 0, !.empresas = 0]
         /\ issuedSinceClear' = {}
         /\ nops' = nops + 1
         /\ ret' = Ret("limpar_dados_teste", TRUE, "limpo", <<>>)
         /\ UNCHANGED <<configuracoes, clock, issued>>

\* INSERT OR REPLACE INTO configuracoes: the row holding the key is deleted
\* and the new row takes the next id
InsertOrReplace(st, chave, valor, descricao, now) ==
    [cfg |-> { c \in st.cfg : c.chave # chave }
               \cup {Configuracao(st.last + 1, chave, valor, descricao, now)},
     last |-> st.last + 1]

\* INSERT OR IGNORE INTO configuracoes: chave is UNIQUE, so a key already
\* present keeps its row and no id is taken
InsertOrIgnore(st, chave, valor, descricao, now) ==
    IF \E c \in st.cfg : c.chave = chave
    THEN st
    ELSE [cfg |-> st.cfg \cup {Configuracao(st.last + 1, chave, valor, descricao, now)},
          last |-> st.last + 1]

RECURSIVE _inserir_configuracoes_padrao_replace(_, _, _)
_inserir_configuracoes_padrao_replace(st, padrao, now) ==
    IF padrao = <<>> THEN st
    ELSE _inserir_configuracoes_padrao_replace(
             InsertOrReplace(st, padrao[1][1], padrao[1][2], padrao[1][3], now),
             Tail(padrao), now)

\* for chave, valor, descricao in configuracoes_padrao: INSERT OR IGNORE
RECURSIVE _inserir_configuracoes_padrao(_, _, _)
_inserir_configuracoes_padrao(st, padrao, now) ==
    IF padrao = <<>> THEN st
    ELSE _inserir_configuracoes_padrao(
             InsertOrIgnore(st, padrao[1][1], padrao[1][2], padrao[1][3], now),
             Tail(padrao), now)

\* CREATE TABLE / INDEX IF NOT EXISTS change nothing once the schema exists,
\* which it does from the import of the module on
init_db(fault) ==
    IF fault = "store"
    THEN /\ ret' = Ret("init_db", FALSE, "erro", <<>>)
         /\ UNCHANGED <<store, clock, hist, nops>>
    ELSE LET st == _inserir_configuracoes_padrao(
                       [cfg |-> configuracoes, last |-> seq.configuracoes],
                       configuracoes_padrao, clock)
         IN  /\ configuracoes' = st.cfg
             /\ seq' = [seq EXCEPT !.configuracoes = st.last]
             /\ ret' = Ret("init_db", TRUE, "inicializado", <<>>)
             /\ UNCHANGED <<atendimentos, empresas, clock, hist, nops>>

\* the arguments of the definir_configuracao calls explored
DefinirInputs ==
    { [chave |-> clinica_nome, valor |-> <<"X">>, descricao |-> NULL],
      [chave |-> <<"nova">>, valor |-> <<"X">>, descricao |-> <<"d">>],
      [chave |-> clinica_nome, valor |-> NULL, descricao |-> NULL] }

\* chave and valor are NOT NULL and have no default: OR REPLACE then aborts
\* with sqlite3.IntegrityError
definir_configuracao(d, fault) ==
    IF fault = "store" \/ d.chave = NULL \/ d.valor = NULL
    THEN /\ ret' = Ret("definir_configuracao", FALSE, "erro", <<>>)
         /\ UNCHANGED <<store, clock, hist, nops>>
    ELSE LET st == InsertOrReplace([cfg |-> configuracoes, last |-> seq.configuracoes],
                                   d.chave, d.valor, d.descricao, clock)
         IN  /\ nops < MaxOps
             /\ configuracoes' = st.cfg
             /\ seq' = [seq EXCEPT !.configuracoes = st.last]
             /\ nops' = nops + 1
             /\ ret' = Ret("definir_configuracao", TRUE, "definido", <<>>)
             /\ UNCHANGED <<atendimentos, empresas, clock, hist>>

\* one second passes on the store's clock
Tick ==
    /\ nops < MaxOps
    /\ clock' = clock + 1
    /\ nops' = nops + 1
    /\ UNCHANGED <<store, ret, hist>>

(***************************************************************************)
(* listar_atendimentos                                                     *)
(***************************************************************************)
\* the columns the SELECT names, in order
ColunasSelect ==
    <<"id", "empresa", "nome", "modalidade", "data", "hora", "laudo_pdf",
      "avaliacao_pdf", "status", "observacoes">>

\* tuple(row): the selected columns of a row
Tupla(r) == [c \in { ColunasSelect[i] : i \in DOMAIN ColunasSelect } |-> r[c]]

\* empresa LIKE '%f%' (the model's alphabet has no lower-case letters)
Like(texto, f) ==
    \E i \in 1..(Len(texto) + 1) :
        /\ i + Len(f) - 1 <= Len(texto)
        /\ SubSeq(texto, i, i + Len(f) - 1) = f

\* r1 is strictly before r2 when both columns are compared as calendar values
OrderByCalendar(r1, r2) ==
    LET k(r) == CHOOSE t \in ParseDate(r.data) : TRUE
        lt(a, b) == \/ a[3] < b[3]
                    \/ a[3] = b[3] /\ a[2] < b[2]
                    \/ a[3] = b[3] /\ a[2] = b[2] /\ a[1] < b[1]
    IN  \/ lt(k(r2), k(r1))
        \/ k(r1) = k(r2) /\ TextLess(r2.hora, r1.hora)

\* r1 is strictly before r2 under ORDER BY data DESC, hora DESC: both columns
\* are TEXT and are compared as text
OrderBy(r1, r2) ==
    \/ TextLess(r2.data, r1.data)
    \/ r1.data = r2.data /\ TextLess(r2.hora, r1.hora)

\* the orders in which the SELECT may return `rows`: rows that ORDER BY does
\* not separate come in any order
Ordered(rows) ==
    { s \in [1..Cardinality(rows) -> rows] :
        /\ \A i, j \in DOMAIN s : i # j => s[i] # s[j]
        /\ \A i, j \in DOMAIN s : i < j => ~OrderBy(s[j], s[i]) }

\* WHERE: a filter that is None or empty is not applied
Where(rows, f) ==
    { r \in rows :
        /\ (f.empresa_filtro \in {NULL, <<>>} \/ Like(r.empresa, f.empresa_filtro))
        /\ (f.modalidade_filtro \in {NULL, <<>>} \/ r.modalidade = f.modalidade_filtro) }

\* LIMIT / OFFSET: applied only when limite is truthy
Limit(s, f) ==
    IF f.limite = 0 THEN s
    ELSE LET off == IF f.offset > 0 THEN f.offset ELSE 0
             n == IF Len(s) - off < f.limite
                  THEN (IF Len(s) < off THEN 0 ELSE Len(s) - off)
                  ELSE f.limite
         IN  [i \in 1..n |-> s[off + i]]

\* the lists listar_atendimentos may return
ListResults(rows, f) ==
    { [i \in DOMAIN Limit(s, f) |-> Tupla(Limit(s, f)[i])] :
        s \in Ordered(Where(rows, f)) }

\* the arguments of the listar_atendimentos calls explored (limite 0: None)
ListInputs ==
    { [limite |-> 0, offset |-> 0, empresa_filtro |-> NULL, modalidade_filtro |-> NULL],
      [limite |-> 1, offset |-> 1, empresa_filtro |-> <<"A">>,
       modalidade_filtro |-> Admissional] }

SemFiltro ==
    [limite |-> 0, offset |-> 0, empresa_filtro |-> NULL, modalidade_filtro |-> NULL]

listar_atendimentos(f, fault) ==
    /\ IF fault = "store"
       THEN ret' = Ret("listar_atendimentos", FALSE, "erro", <<>>)
       ELSE \E res \in ListResults(atendimentos, f) :
               ret' = Ret("listar_atendimentos", TRUE,
                          IF f = SemFiltro THEN "todos" ELSE "filtrado", res)
    /\ UNCHANGED <<store, clock, hist, nops>>

(***************************************************************************)
(* obter_estatisticas                                                      *)
(***************************************************************************)
\* SELECT col, COUNT(*) FROM atendimentos GROUP BY col: one <<value, count>>
\* pair per distinct value of the column
GroupCount(rows, col) ==
    { <<v, Cardinality({ r \in rows : r[col] = v })>> : v \in { r[col] : r \in rows } }

GroupCount_mes(rows) ==
    LET comData == { r \in rows : r.data \notin {NULL, <<>>} }
        mes(r) == SubSeq(r.data, 4, Len(r.data))
    IN  { <<v, Cardinality({ r \in comData : mes(r) = v })>> :
            v \in { mes(r) : r \in comData } }

\* the first n elements of a sequence (LIMIT n)
Primeiros(s, n) == IF Len(s) <= n THEN s ELSE SubSeq(s, 1, n)

\* every arrangement of a set of pairs as a sequence
Arranjos(pairs) ==
    { s \in [1..Cardinality(pairs) -> pairs] :
        \A i, j \in DOMAIN s : i # j => s[i] # s[j] }

OrderByCountAsc(pairs) ==
    { s \in Arranjos(pairs) : \A i, j \in DOMAIN s : i < j => s[i][2] <= s[j][2] }

\* ORDER BY count DESC, then dict(cursor.fetchall()): a dict keeps the order
\* in which the rows came; groups of equal count come in any order
OrderByCountDesc(pairs) ==
    { s \in Arranjos(pairs) : \A i, j \in DOMAIN s : i < j => s[i][2] >= s[j][2] }

\* ORDER BY mes_ano DESC: the keys are distinct texts
OrderByKeyDesc(pairs) ==
    { s \in Arranjos(pairs) : \A i, j \in DOMAIN s : i < j => TextLess(s[j][1], s[i][1]) }

\* SELECT COUNT(DISTINCT empresa) FROM atendimentos
total_empresas_tabela(rows, emps) == Cardinality(emps)

total_empresas(rows, emps) == Cardinality({ r.empresa : r \in rows })

\* the dictionaries obter_estatisticas may return when each of its queries
\* reads the table `rows`
Estatisticas(rows, emps) ==
    { [total_atendimentos |-> Cardinality(rows),
       total_empresas |-> total_empresas(rows, emps),
       laudos_enviados |-> Cardinality({ r \in rows : r.laudo_pdf # NULL }),
       avaliacoes_enviadas |-> Cardinality({ r \in rows : r.avaliacao_pdf # NULL }),
       modalidades |-> m,
       status_distribuicao |-> st,
       atendimentos_por_mes |-> Primeiros(pm, 6),
       empresas_mais_ativas |-> Primeiros(e, 5)] :
        m \in OrderByCountDesc(GroupCount(rows, "modalidade")),
        st \in OrderByCountDesc(GroupCount(rows, "status")),
        pm \in OrderByKeyDesc(GroupCount_mes(rows)),
        e \in OrderByCountDesc(GroupCount(rows, "empresa")) }

\* one session calls obter_estatisticas and nothing else runs meanwhile; a
\* storage error makes it return the empty dictionary
obter_estatisticas(fault) ==
    /\ IF fault = "store"
       THEN ret' = Ret("obter_estatisticas", FALSE, "erro", <<>>)
       ELSE \E est \in Estatisticas(atendimentos, empresas) :
               ret' = Ret("obter_estatisticas", TRUE, "estatisticas", est)
    /\ UNCHANGED <<store, clock, hist, nops>>

\* the keys of the dictionary, in the order obter_estatisticas fills them:
\* one query each
Consultas ==
    <<"total_atendimentos", "total_empresas", "laudos_enviados",
      "avaliacoes_enviadas", "modalidades", "status_distribuicao",
      "atendimentos_por_mes", "empresas_mais_ativas">>

\* obter_estatisticas in a second session, one query at a time.  The cursor
\* runs each SELECT outside any transaction (sqlite3 opens one only before
\* INSERT/UPDATE/DELETE/REPLACE), so each query reads the table as committed
\* when it runs; after the last one the dictionary is returned.
obter_estatisticas_passo ==
    IF leitor.pc < Len(Consultas)
    THEN /\ \E e \in Estatisticas(atendimentos, empresas) :
             LET k == Consultas[leitor.pc + 1]
             IN  leitor' = [pc |-> leitor.pc + 1,
                            est |-> [f \in DOMAIN leitor.est \cup {k} |->
                                       IF f = k THEN e[k] ELSE leitor.est[f]]]
         /\ UNCHANGED <<store, clock, ret, hist, nops, security_log, escopo, pagina>>
    ELSE /\ ret' = Ret("obter_estatisticas", TRUE, "estatisticas", leitor.est)
         /\ leitor' = LeitorParado
         /\ UNCHANGED <<store, clock, hist, nops, security_log, escopo, pagina>>

(***************************************************************************)
(* obter_relatorio_periodo, listar_empresas                                *)
(***************************************************************************)
\* a <= b between two TEXT values
TextLeq(a, b) == a = b \/ TextLess(a, b)

\* WHERE data >= ? AND data <= ?: the column and both parameters are TEXT, so
\* SQLite compares them as text; a comparison with NULL selects no row
WherePeriodo(rows, data_inicio, data_fim) ==
    IF data_inicio = NULL \/ data_fim = NULL THEN {}
    ELSE { r \in rows : TextLeq(data_inicio, r.data) /\ TextLeq(r.data, data_fim) }

\* the lists obter_relatorio_periodo may return
RelatorioResults(rows, data_inicio, data_fim) ==
    { [i \in DOMAIN s |-> Tupla(s[i])] :
        s \in Ordered(WherePeriodo(rows, data_inicio, data_fim)) }

obter_relatorio_periodo(p, fault) ==
    /\ IF fault = "store"
       THEN ret' = Ret("obter_relatorio_periodo", FALSE, "erro", <<>>)
       ELSE \E res \in RelatorioResults(atendimentos, p.data_inicio, p.data_fim) :
               ret' = Ret("obter_relatorio_periodo", TRUE, "periodo", res)
    /\ UNCHANGED <<store, clock, hist, nops>>

\* SELECT ... FROM empresas WHERE ativo = 1 ORDER BY nome: ativo keeps its
\* default 1, nome is UNIQUE
EmpresasPorNome(emps) ==
    CHOOSE s \in [1..Cardinality(emps) -> emps] :
        \A i, j \in DOMAIN s : i < j => TextLess(s[i].nome, s[j].nome)

listar_empresas(fault) ==
    /\ ret' = IF fault = "store"
              THEN Ret("listar_empresas", FALSE, "erro", <<>>)
              ELSE Ret("listar_empresas", TRUE, "empresas", EmpresasPorNome(empresas))
    /\ UNCHANGED <<store, clock, hist, nops>>

(***************************************************************************)
(* try / except: what the body of a function raises and what its except    *)
(* clauses catch                                                           *)
(***************************************************************************)
\* the exception classes an except clause naming `classe` catches
Subclasses(classe) ==
    CASE classe = "Exception" ->
            {"Exception", "TypeError", "AttributeError", "ValueError",
             "sqlite3.Error", "sqlite3.OperationalError", "sqlite3.IntegrityError"}
      [] classe = "sqlite3.Error" ->
            {"sqlite3.Error", "sqlite3.OperationalError", "sqlite3.IntegrityError"}
      [] OTHER -> {classe}

Apanha(clausulas, exc) == \E c \in clausulas : exc \in Subclasses(c)

ExceptSqlite(op) == {"sqlite3.Error"}

\* the except clauses that close the try block of each function
Except(op) ==
    IF op = "inserir_atendimento"
    THEN {"sqlite3.IntegrityError", "Exception"}
    ELSE {"Exception"}

\* a call whose body raises `exc` ("nenhuma": it runs to a return statement,
\* as `acao` describes).  A caught exception is logged and the failure value
\* returned; the connection is closed without a commit, so nothing the body
\* wrote stays.  One that no clause catches leaves the function.
Chamada(op, exc, acao) ==
    IF exc = "nenhuma" THEN acao
    ELSE /\ ret' = Ret(op, FALSE,
                       IF Apanha(Except(op), exc) THEN exc ELSE "propaga", <<>>)
         /\ UNCHANGED <<store, clock, hist, nops>>

\* a storage error: sqlite3.connect, a PRAGMA, the statement or the commit
\* raises
ErroDeArmazenamento(fault) ==
    IF fault = "store" THEN "sqlite3.OperationalError" ELSE "nenhuma"

\* inserir_atendimento: strptime(None, ...) raises TypeError, which the
\* validators (except ValueError) let through; None.strip() raises
\* AttributeError; NULL in a NOT NULL column raises sqlite3.IntegrityError
Levanta_inserir_atendimento(a, fault) ==
    IF fault = "store" THEN "sqlite3.OperationalError"
    ELSE IF a.data = NULL THEN "TypeError"
    ELSE IF ~_validar_formato_data(a.data) THEN "nenhuma"
    ELSE IF a.hora = NULL THEN "TypeError"
    ELSE IF ~_validar_formato_hora(a.hora) THEN "nenhuma"
    ELSE IF a.empresa = NULL \/ a.nome = NULL THEN "AttributeError"
    ELSE IF \E c \in NotNull : a[c] = NULL THEN "sqlite3.IntegrityError"
    ELSE "nenhuma"

\* atualizar_atendimento: the connection is opened once **campos is known not
\* to be empty; the UPDATE of a stored row raises when it sets a NOT NULL
\* column to NULL
Levanta_atualizar_atendimento(rows, id_atendimento, campos, fault) ==
    IF DOMAIN campos = {} THEN "nenhuma"
    ELSE IF fault = "store" THEN "sqlite3.OperationalError"
    ELSE IF /\ CamposUpdate(campos) # {}
            /\ id_atendimento \in Ids(rows)
            /\ NullViolation(campos) THEN "sqlite3.IntegrityError"
    ELSE "nenhuma"

\* definir_configuracao: chave and valor are NOT NULL
Levanta_definir_configuracao(d, fault) ==
    IF fault = "store" THEN "sqlite3.OperationalError"
    ELSE IF d.chave = NULL \/ d.valor = NULL THEN "sqlite3.IntegrityError"
    ELSE "nenhuma"

\* arguments of inserir_atendimento that are not texts
InsertInputsTipos ==
    { [empresa |-> NULL, nome |-> <<"P">>, modalidade |-> Admissional,
       data |-> d_05_01_2025, hora |-> h_09_00, laudo_pdf |-> NULL,
       avaliacao_pdf |-> NULL, observacoes |-> NULL],
      [empresa |-> <<"A">>, nome |-> <<"P">>, modalidade |-> Admissional,
       data |-> NULL, hora |-> h_09_00, laudo_pdf |-> NULL,
       avaliacao_pdf |-> NULL, observacoes |-> NULL] }

(***************************************************************************)
(* safe_filename, UploadPage._render_upload_form                           *)
(***************************************************************************)
\* the characters of the model's alphabet that \w matches
Palavra == Digit \cup {"A", "B", "P", "Q", "a", "d", "f", "l", "p", "_"}

\* re.sub(r'[^\w\-_\.]', '_', filename)
Substituir(s) ==
    [i \in DOMAIN s |-> IF s[i] \in Palavra \cup {"-", "."} THEN s[i] ELSE "_"]

\* str.replace(" ", "_")
Replace(s) == [i \in DOMAIN s |-> IF s[i] = " " THEN "_" ELSE s[i]]

DigitChar(n) == CHOOSE c \in Digit : DigitVal(c) = n

\* datetime.now().strftime("%Y%m%d_%H%M%S"): the wall clock cut to the second;
\* the model's clock counts the seconds from 2025-01-05 09:00:00
strftime(now) ==
    <<"2", "0", "2", "5", "0", "1", "0", "5", "_", "0", "9", "0", "0",
      DigitChar((now \div 10) % 6), DigitChar(now % 10)>>

\* os.path.splitext: the extension starts at the last dot, dots that lead the
\* name apart
SplitExt(s) ==
    LET dots == { i \in DOMAIN s : s[i] = "." /\ \E j \in 1..(i - 1) : s[j] # "." }
        k == Max(dots)
    IN  IF dots = {} THEN <<s, <<>>>>
        ELSE <<SubSeq(s, 1, k - 1), SubSeq(s, k, Len(s))>>

\* safe_filename: f"{timestamp}_{name}{ext}"
safe_filename(filename, now) ==
    LET safe_name == Truncar(Substituir(filename), 100)
        timestamp == strftime(now)
        name == SplitExt(safe_name)[1]
        ext == SplitExt(safe_name)[2]
    IN  timestamp \o <<"_">> \o name \o ext

\* the file names explored
FilenameInputs ==
    { <<"l", ".", "p", "d", "f">>,
      <<"l", " ", "a", ".", "p", "d", "f">>,
      <<".", "/", "l">> }

\* the files explored: their name, their content and their size cut to the
\* megabyte
UploadInputs ==
    { [name |-> <<"l", ".", "p", "d", "f">>, conteudo |-> <<"c1">>, size_mb |-> 1],
      [name |-> <<"l", ".", "p", "d", "f">>, conteudo |-> <<"c2">>, size_mb |-> 1],
      [name |-> <<"l", " ", "a", ".", "p", "d", "f">>, conteudo |-> <<"c1">>, size_mb |-> 1],
      [name |-> <<"a", ".", "p", "d", "f">>, conteudo |-> <<"c2">>, size_mb |-> 11] }

\* a call of safe_filename; the name it returns is kept with its argument
chamar_safe_filename(filename) ==
    /\ nops < MaxOps
    /\ arquivos' = [arquivos EXCEPT
                      !.nomes = Append(@, [filename |-> filename,
                                           nome |-> safe_filename(filename, clock)])]
    /\ nops' = nops + 1
    /\ UNCHANGED <<store, clock, ret, hist, security_log, leitor, escopo, puro, ui>>

\* the button "Salvar PDF": open(destino, "wb") creates the file or empties
\* the one that has this name
_render_upload_form(up_file) ==
    LET nome_seguro == Replace(up_file.name)
        timestamp == strftime(clock)
        destino == timestamp \o <<"_">> \o nome_seguro
    IN  /\ nops < MaxOps
        /\ arquivos' =
              IF up_file.size_mb > 10 THEN arquivos
              ELSE [arquivos EXCEPT
                      !.uploads = { f \in @ : f.nome # destino }
                                    \cup {[nome |-> destino, conteudo |-> up_file.conteudo]},
                      !.salvos = @ + 1]
        /\ nops' = nops + 1
        /\ UNCHANGED <<store, clock, ret, hist, security_log, leitor, escopo, puro, ui>>

(***************************************************************************)
(* The functions of src/security.py applied to an argument                 *)
(***************************************************************************)
\* every text of at most n characters of the alphabet
Textos(alfabeto, n) == UNION { [1..k -> alfabeto] : k \in 0..n }

\* the arguments of sanitize_input explored: None and every text of at most
\* MaxLen characters, with a max_length around that length
SanitizeInputs ==
    { [input_str |-> t, max_length |-> n] :
        t \in Textos({"a", " ", "<", ";"}, MaxLen) \cup {NULL},
        n \in (-1)..(MaxLen - 1) }

\* the call is made: its result is kept with its argument
aplicar_sanitize_input ==
    /\ puro.f = "nenhuma"
    /\ puro' = [puro EXCEPT
                  !.f = "sanitize_input",
                  !.res = sanitize_input(puro.arg.input_str, puro.arg.max_length)]
    /\ UNCHANGED <<store, clock, ret, hist, nops, security_log, leitor, escopo,
                   arquivos, ui>>

\* validate_date_input, the same code as _validar_formato_data: True unless
\* strptime raises ValueError
validate_date_input(date_str) == ParseDate(date_str) # {}

\* validate_time_input, the same code as _validar_formato_hora
validate_time_input(time_str) == ParseTime(time_str) # {}

\* the texts given to the date validators: a day, a month and a year, padded
\* or not, in range or not, around a separator
DateInputs ==
    { d \o <<sep>> \o m \o <<sep>> \o y :
        d \in { <<"1">>, <<"0", "1">>, <<" ", "1">>, <<"2", "9">>, <<"3", "1">>,
                <<"3", "2">>, <<"0", "0">> },
        m \in { <<"1">>, <<"0", "2">>, <<"0", "4">>, <<"1", "2">>, <<"1", "3">> },
        y \in { <<"2", "0", "2", "3">>, <<"2", "0", "2", "4">>, <<"2", "4">> },
        sep \in {"/", "-"} }

\* the texts given to the time validators
TimeInputs ==
    { h \o <<sep>> \o m :
        h \in { <<"9">>, <<"0", "9">>, <<"2", "3">>, <<"2", "4">>, <<"0", "0">> },
        m \in { <<"5">>, <<"0", "5">>, <<"5", "9">>, <<"6", "0">>, <<"0", "0">> },
        sep \in {":", "."} }

aplicar_validate_date_input ==
    /\ puro.f = "nenhuma"
    /\ DOMAIN puro.arg = {"date_str"}
    /\ puro' = [puro EXCEPT !.f = "validate_date_input",
                            !.res = validate_date_input(puro.arg.date_str)]
    /\ UNCHANGED <<store, clock, ret, hist, nops, security_log, leitor, escopo,
                   arquivos, ui>>

aplicar_validate_time_input ==
    /\ puro.f = "nenhuma"
    /\ DOMAIN puro.arg = {"time_str"}
    /\ puro' = [puro EXCEPT !.f = "validate_time_input",
                            !.res = validate_time_input(puro.arg.time_str)]
    /\ UNCHANGED <<store, clock, ret, hist, nops, security_log, leitor, escopo,
                   arquivos, ui>>

\* b'%PDF-'
pdf_header == <<"%", "P", "D", "F", "-">>

dangerous_patterns_sem_launch ==
    { <<"/", "J", "a", "v", "a", "S", "c", "r", "i", "p", "t">>,
      <<"/", "J", "S">>,
      <<"/", "O", "p", "e", "n", "A", "c", "t", "i", "o", "n">> }

\* b'/JavaScript', b'/JS', b'/OpenAction', b'/Launch'
dangerous_patterns ==
    { <<"/", "J", "a", "v", "a", "S", "c", "r", "i", "p", "t">>,
      <<"/", "J", "S">>,
      <<"/", "O", "p", "e", "n", "A", "c", "t", "i", "o", "n">>,
      <<"/", "L", "a", "u", "n", "c", "h">> }

\* a bytes value: the bytes it begins with, followed by `zeros` bytes of value
\* 0, which occur in no pattern
Bytes(inicio, zeros) == [tipo |-> "bytes", inicio |-> inicio, zeros |-> zeros]

\* values of another type given as file_content: None, and a str
NaoBytes ==
    { [tipo |-> "NoneType", inicio |-> <<>>, zeros |-> 0],
      [tipo |-> "str", inicio |-> <<"%", "P", "D", "F", "-">>, zeros |-> 0] }

\* len(file_content)
LenBytes(b) == Len(b.inicio) + b.zeros

\* file_content.startswith(prefixo), the prefix holding no byte 0
StartsWith(b, prefixo) ==
    Len(b.inicio) >= Len(prefixo) /\ SubSeq(b.inicio, 1, Len(prefixo)) = prefixo

\* what the body of the try block raises: None has no startswith, and that
\* of a str takes no bytes
Levanta_validate_pdf_content(file_content) ==
    IF file_content.tipo = "NoneType" THEN "AttributeError"
    ELSE IF file_content.tipo = "str" THEN "TypeError"
    ELSE "nenhuma"

\* validate_pdf_content: the value returned and the exception that leaves the
\* function ("nenhuma": none does)
validate_pdf_content(file_content) ==
    LET exc == Levanta_validate_pdf_content(file_content)
    IN  IF exc # "nenhuma"
        THEN [ret |-> FALSE,
              raise |-> IF Apanha({"Exception"}, exc) THEN "nenhuma" ELSE exc]
        ELSE [ret |-> /\ StartsWith(file_content, pdf_header)
                      /\ ~(LenBytes(file_content) > 10 * 1024 * 1024)
                      /\ \A pattern \in dangerous_patterns :
                            ~Like(file_content.inicio, pattern),
              raise |-> "nenhuma"]

\* the contents given to validate_pdf_content: a beginning, a body, and a
\* length below, at and above 10 MiB; and values that are no bytes
PdfInputs ==
    { Bytes(h \o c, z - Len(h \o c)) :
        h \in { pdf_header, <<"%", "P", "D", "F">>, <<"x", "%", "P", "D", "F", "-">>, <<>> },
        c \in { <<>>, <<"/", "J">>, <<"J", "S", "/">>, <<"/", "j", "s">>,
                <<"x", "/", "J", "S", "x">>,
                <<"/", "J", "a", "v", "a", "S", "c", "r", "i", "p", "t">>,
                <<"/", "O", "p", "e", "n", "A", "c", "t", "i", "o", "n">>,
                <<"x", "/", "L", "a", "u", "n", "c", "h">>,
                <<"/", "L", "a", "u", "n", "c">> },
        z \in { 20, 10 * 1024 * 1024, 10 * 1024 * 1024 + 1 } }
      \cup NaoBytes

aplicar_validate_pdf_content ==
    /\ puro.f = "nenhuma"
    /\ puro' = [puro EXCEPT !.f = "validate_pdf_content",
                            !.res = validate_pdf_content(puro.arg)]
    /\ UNCHANGED <<store, clock, ret, hist, nops, security_log, leitor, escopo,
                   arquivos, ui>>

(***************************************************************************)
(* AppointmentsPage.render: the bar "Excluir" / "Desfazer"                 *)
(***************************************************************************)
\* the column names of the DataFrame, in the order of the SELECT
cols_names ==
    <<"ID", "Empresa", "Nome", "Modalidade", "Data", "Hora", "Laudo PDF",
      "Avaliacao PDF", "Status", "Observacoes">>

\* df_head[df_head["ID"] == sel_id_header].iloc[0].to_dict(): the values of
\* the listed tuple under the names of cols_names
Snapshot(t) ==
    [n \in { cols_names[i] : i \in DOMAIN cols_names } |->
        t[ColunasSelect[CHOOSE i \in DOMAIN cols_names : cols_names[i] = n]]]

\* the arguments "Desfazer" gives to db.inserir_atendimento: the snapshot's
\* Status is not among them
ArgumentosDesfazer(snap) ==
    [empresa |-> snap["Empresa"], nome |-> snap["Nome"],
     modalidade |-> snap["Modalidade"], data |-> snap["Data"],
     hora |-> snap["Hora"], laudo_pdf |-> snap["Laudo PDF"],
     avaliacao_pdf |-> snap["Avaliacao PDF"], observacoes |-> snap["Observacoes"]]

\* a run of the page's script begins: DatabaseManager.get_all_appointments()
get_all_appointments ==
    /\ \E res \in ListResults(atendimentos, SemFiltro) :
          ui' = [ui EXCEPT !.lida = TRUE, !.appointments = res]
    /\ UNCHANGED <<store, clock, ret, hist, nops, security_log, leitor, escopo,
                   puro, arquivos>>

\* the run goes on with "Excluir" pressed for a listed appointment: the
\* snapshot is put into session_state, then delete_appointment is called
btn_delete_header(sel_id_header, fault) ==
    /\ ui.lida
    /\ \E i \in DOMAIN ui.appointments :
          /\ ui.appointments[i].id = sel_id_header
          /\ ui' = [ui EXCEPT
                      !.lida = FALSE,
                      !.last_deleted_snapshot = {Snapshot(ui.appointments[i])},
                      !.antes = atendimentos,
                      !.antes_nops = nops,
                      !.excluiu =
                          DeleteOutcome(atendimentos, sel_id_header, fault) = "excluido"]
    /\ excluir_atendimento(sel_id_header, fault)
    /\ UNCHANGED <<security_log, leitor, escopo, puro, arquivos>>

\* the run goes on with "Desfazer" pressed: the button is there when the
\* list is not empty and session_state holds a snapshot, which a successful
\* insert removes
btn_undo_delete_header(fault) ==
    /\ ui.lida
    /\ ui.appointments # <<>>
    /\ \E snap \in ui.last_deleted_snapshot :
          LET a == ArgumentosDesfazer(snap)
          IN  /\ inserir_atendimento(a, fault)
              /\ ui' = [ui EXCEPT
                          !.lida = FALSE,
                          !.last_deleted_snapshot =
                              IF InsertOutcome(a, fault) = "inserido" THEN {} ELSE @]
    /\ UNCHANGED <<security_log, leitor, escopo, puro, arquivos>>

(***************************************************************************)
(* get_db_connection: the generator behind `with get_db_connection() as    *)
(* conn:`, around a body that executes statements, commits, returns or     *)
(* raises                                                                  *)
(***************************************************************************)
\* where sqlite3.Error strikes before the yield: in sqlite3.connect, or in one
\* of the PRAGMA statements
FaultsEntrada == {"none", "connect", "pragma"}

\* how the body ends: it returns (also early), or raises sqlite3.Error, or
\* raises an exception of another type
Fins == {"return", "sqlite3.Error", "Exception"}

EventosSaidaQualquerErro(erro) ==
    IF erro = "return" THEN <<"close">> ELSE <<"rollback", "close", "raise">>

\* what the generator does once the body has ended: `except sqlite3.Error`
\* rolls back and re-raises, `finally` closes; there is no commit
EventosSaida(erro) ==
    IF erro = "sqlite3.Error" THEN <<"rollback", "close", "raise">>
    ELSE IF erro = "Exception" THEN <<"close", "raise">>
    ELSE <<"close">>

\* the lines before the yield
get_db_connection_entrada(fault) ==
    /\ escopo.pc = "fora"
    /\ escopo' =
          IF fault = "connect"
          THEN [pc |-> "fora", conn |-> "nenhuma", pend |-> {},
                erro |-> "sqlite3.Error", eventos |-> <<"raise">>]
          ELSE IF fault = "pragma"
          THEN [pc |-> "fora", conn |-> "fechada", pend |-> {},
                erro |-> "sqlite3.Error",
                eventos |-> <<"open">> \o EventosSaida("sqlite3.Error")]
          ELSE [pc |-> "corpo", conn |-> "aberta", pend |-> {},
                erro |-> "nenhum", eventos |-> <<"open">>]
    /\ ret' = Ret("get_db_connection", fault = "none",
                  IF fault = "none" THEN "yield" ELSE "erro", <<>>)
    /\ UNCHANGED <<store, clock, hist, nops, security_log, leitor, pagina>>

\* the body executes an INSERT: the row is written in the connection's
\* transaction, which sqlite3 opens before the statement
corpo_execute(a) ==
    /\ escopo.pc = "corpo"
    /\ nops < MaxOps
    /\ LET newid == NextId(atendimentos \cup escopo.pend, seq.atendimentos)
       IN  escopo' = [escopo EXCEPT
                        !.pend = @ \cup {NovoAtendimento(a, newid, clock)},
                        !.eventos = Append(@, "execute")]
    /\ nops' = nops + 1
    /\ UNCHANGED <<store, clock, ret, hist, security_log, leitor, pagina>>

\* the body calls conn.commit()
corpo_commit ==
    /\ escopo.pc = "corpo"
    /\ nops < MaxOps
    /\ atendimentos' = atendimentos \cup escopo.pend
    /\ seq' = [seq EXCEPT !.atendimentos = Max(Ids(escopo.pend) \cup {@})]
    /\ issued' = issued \cup Ids(escopo.pend)
    /\ issuedSinceClear' = issuedSinceClear \cup Ids(escopo.pend)
    /\ escopo' = [escopo EXCEPT !.pend = {}, !.eventos = Append(@, "commit")]
    /\ nops' = nops + 1
    /\ UNCHANGED <<empresas, configuracoes, clock, ret, security_log, leitor, pagina>>

\* the body ends
corpo_fim(fim) ==
    /\ escopo.pc = "corpo"
    /\ escopo' = [escopo EXCEPT !.pc = "saida", !.erro = fim]
    /\ UNCHANGED <<store, clock, ret, hist, nops, security_log, leitor, pagina>>

\* the lines after the yield; closing the connection discards what its
\* transaction holds uncommitted
get_db_connection_saida ==
    /\ escopo.pc = "saida"
    /\ LET ev == EventosSaida(escopo.erro)
           has(e) == \E i \in DOMAIN ev : ev[i] = e
       IN  escopo' = [escopo EXCEPT
                        !.pc = "fora",
                        !.conn = IF has("close") THEN "fechada" ELSE @,
                        !.pend = IF has("rollback") \/ has("close") THEN {} ELSE @,
                        !.eventos = @ \o ev]
    /\ ret' = Ret("get_db_connection", escopo.erro = "return", escopo.erro, <<>>)
    /\ UNCHANGED <<store, clock, hist, nops, security_log, leitor, pagina>>

(***************************************************************************)
(* Specification                                                           *)
(***************************************************************************)
\* the ids callers pass: every stored id, and one that is not stored
IdInputs == Ids(atendimentos) \cup {seq.atendimentos + 1}

\* the arguments explored under a fault: a storage error ends every call the
\* same way whatever its arguments, so one argument stands for all of them
Args(S, fault) == IF fault = "store" THEN {CHOOSE x \in S : TRUE} ELSE S

Next ==
    \/ \E fault \in Faults : \E a \in Args(InsertInputs, fault) :
          inserir_atendimento(a, fault) /\ UNCHANGED sess
    \/ \E fault \in Faults : \E i \in Args(IdInputs, fault) :
          \E campos \in Args(UpdateInputs, fault) :
             atualizar_atendimento(i, campos, fault) /\ UNCHANGED sess
    \/ \E fault \in Faults : \E i \in Args(IdInputs, fault) :
          excluir_atendimento(i, fault) /\ UNCHANGED sess
    \/ \E fault \in Faults : \E f \in Args(ListInputs, fault) :
          listar_atendimentos(f, fault) /\ UNCHANGED sess
    \/ \E fault \in Faults : obter_estatisticas(fault) /\ UNCHANGED sess
    \/ \E fault \in Faults : limpar_dados_teste(fault) /\ UNCHANGED sess
    \/ \E fault \in Faults : init_db(fault) /\ UNCHANGED sess
    \/ Tick /\ UNCHANGED sess

Spec == Init /\ [][Next]_vars

\* the appointments and the companies when the error may also strike the
\* second statement of inserir_atendimento alone
NextFalhas ==
    \/ \E fault \in InsertFaults : \E a \in Args(InsertInputs, fault) :
          inserir_atendimento(a, fault) /\ UNCHANGED sess
    \/ \E fault \in Faults : \E i \in Args(IdInputs, fault) :
          excluir_atendimento(i, fault) /\ UNCHANGED sess
    \/ \E fault \in Faults : \E f \in Args(ListInputs, fault) :
          listar_atendimentos(f, fault) /\ UNCHANGED sess

SpecFalhas == Init /\ [][NextFalhas]_vars

\* the store under init_db and the operations that fill what it must keep
NextConfig ==
    \/ \E fault \in Faults : \E a \in Args(InsertInputs, fault) :
          inserir_atendimento(a, fault) /\ UNCHANGED sess
    \/ \E fault \in Faults : \E d \in Args(DefinirInputs, fault) :
          definir_configuracao(d, fault) /\ UNCHANGED sess
    \/ \E fault \in Faults : init_db(fault) /\ UNCHANGED sess
    \/ Tick /\ UNCHANGED sess

SpecConfig == Init /\ [][NextConfig]_vars

\* the arguments of the calls explored for their failures: two that insert,
\* those the function rejects, and those of a wrong type
InsertInputsErros ==
    { a \in InsertInputs :
        \/ a.data \in {d_05_01_2025, d_20_12_2024}
        \/ InsertOutcome(a, "none") # "inserido" }
      \cup InsertInputsTipos

\* the periods of the obter_relatorio_periodo calls explored for their
\* failures
PeriodoInputsErros ==
    { [data_inicio |-> d_20_12_2024, data_fim |-> d_05_01_2025],
      [data_inicio |-> d_05_01_2024, data_fim |-> NULL] }

\* every operation of the repository with each way its body can fail
NextErros ==
    \/ \E fault \in Faults : \E a \in Args(InsertInputsErros, fault) :
          /\ Chamada("inserir_atendimento", Levanta_inserir_atendimento(a, fault),
                     inserir_atendimento(a, "none"))
          /\ UNCHANGED sess
    \/ \E fault \in Faults : \E i \in Args(IdInputs, fault) :
          \E campos \in Args(UpdateInputs, fault) :
             /\ Chamada("atualizar_atendimento",
                        Levanta_atualizar_atendimento(atendimentos, i, campos, fault),
                        atualizar_atendimento(i, campos, "none"))
             /\ UNCHANGED sess
    \/ \E fault \in Faults : \E i \in Args(IdInputs, fault) :
          /\ Chamada("excluir_atendimento", ErroDeArmazenamento(fault),
                     excluir_atendimento(i, "none"))
          /\ UNCHANGED sess
    \/ \E fault \in Faults :
          /\ Chamada("init_db", ErroDeArmazenamento(fault), init_db("none"))
          /\ UNCHANGED sess
    \/ \E fault \in Faults : \E d \in Args(DefinirInputs, fault) :
          /\ Chamada("definir_configuracao", Levanta_definir_configuracao(d, fault),
                     definir_configuracao(d, "none"))
          /\ UNCHANGED sess
    \/ \E fault \in Faults : \E f \in Args(ListInputs, fault) :
          /\ Chamada("listar_atendimentos", ErroDeArmazenamento(fault),
                     listar_atendimentos(f, "none"))
          /\ UNCHANGED sess
    \/ \E fault \in Faults : \E p \in Args(PeriodoInputsErros, fault) :
          /\ Chamada("obter_relatorio_periodo", ErroDeArmazenamento(fault),
                     obter_relatorio_periodo(p, "none"))
          /\ UNCHANGED sess
    \/ \E fault \in Faults :
          /\ Chamada("listar_empresas", ErroDeArmazenamento(fault),
                     listar_empresas("none"))
          /\ UNCHANGED sess
    \/ \E fault \in Faults :
          /\ Chamada("obter_estatisticas", ErroDeArmazenamento(fault),
                     obter_estatisticas("none"))
          /\ UNCHANGED sess

SpecErros == Init /\ [][NextErros]_vars

\* names are generated and files saved while the clock advances
NextArquivos ==
    \/ \E filename \in FilenameInputs : chamar_safe_filename(filename)
    \/ \E up_file \in UploadInputs : _render_upload_form(up_file)
    \/ Tick /\ UNCHANGED sess

SpecArquivos == Init /\ [][NextArquivos]_vars

\* sanitize_input applied to each argument
InitSanitize ==
    /\ InitSemPuro
    /\ puro \in { [f |-> "nenhuma", arg |-> a, res |-> <<>>] : a \in SanitizeInputs }

NextSanitize == aplicar_sanitize_input

SpecSanitize == InitSanitize /\ [][NextSanitize]_vars

\* the validators applied to each text
InitValidar ==
    /\ InitSemPuro
    /\ puro \in { [f |-> "nenhuma", arg |-> [date_str |-> t], res |-> <<>>] :
                     t \in DateInputs }
               \cup { [f |-> "nenhuma", arg |-> [time_str |-> t], res |-> <<>>] :
                        t \in TimeInputs }

NextValidar ==
    \/ aplicar_validate_date_input
    \/ aplicar_validate_time_input

SpecValidar == InitValidar /\ [][NextValidar]_vars

\* validate_pdf_content applied to each content
InitPdf ==
    /\ InitSemPuro
    /\ puro \in { [f |-> "nenhuma", arg |-> b, res |-> <<>>] : b \in PdfInputs }

NextPdf == aplicar_validate_pdf_content

SpecPdf == InitPdf /\ [][NextPdf]_vars

\* appointments before, inside and after February 2024
InsertInputsRelatorio ==
    { [empresa |-> <<"A">>, nome |-> <<"P">>, modalidade |-> Admissional,
       data |-> d, hora |-> h_09_00, laudo_pdf |-> NULL,
       avaliacao_pdf |-> NULL, observacoes |-> NULL] :
        d \in {d_25_01_2024, d_10_02_2024, d_15_03_2024} }

\* the periods of the obter_relatorio_periodo calls explored
PeriodoInputs ==
    { [data_inicio |-> d_01_02_2024, data_fim |-> d_20_02_2024],
      [data_inicio |-> d_25_01_2024, data_fim |-> d_15_03_2024] }

\* appointments are inserted and deleted, and reports asked for
NextRelatorio ==
    \/ \E a \in InsertInputsRelatorio : inserir_atendimento(a, "none") /\ UNCHANGED sess
    \/ \E fault \in Faults : \E i \in Args(IdInputs, fault) :
          excluir_atendimento(i, fault) /\ UNCHANGED sess
    \/ \E fault \in Faults : \E p \in Args(PeriodoInputs, fault) :
          obter_relatorio_periodo(p, fault) /\ UNCHANGED sess

SpecRelatorio == Init /\ [][NextRelatorio]_vars

\* the appointments page opened on a store that holds appointments
\* inserted earlier, the second one concluded since or not
AtendimentosDaPagina ==
    LET a1 == [empresa |-> <<"A">>, nome |-> <<"P">>, modalidade |-> Admissional,
               data |-> d_05_01_2025, hora |-> h_09_00, laudo_pdf |-> NULL,
               avaliacao_pdf |-> NULL, observacoes |-> NULL]
        a2 == [empresa |-> <<" ", "B", " ">>, nome |-> <<"Q", " ">>,
               modalidade |-> Periodico, data |-> d_20_12_2024, hora |-> h_23_59,
               laudo_pdf |-> laudo_ref, avaliacao_pdf |-> NULL,
               observacoes |-> obs_text]
        dois == {NovoAtendimento(a1, 1, 0), NovoAtendimento(a2, 2, 0)}
    IN  { dois, UpdateRows(dois, 2, [status |-> Concluido], 0) }

InitUi ==
    /\ atendimentos \in AtendimentosDaPagina
    /\ empresas =
          _registrar_empresa_se_nova(
              _registrar_empresa_se_nova({}, 0, <<"A">>, 0), 1, <<"B">>, 0)
    /\ configuracoes =
          { Configuracao(i, configuracoes_padrao[i][1], configuracoes_padrao[i][2],
                         configuracoes_padrao[i][3], 0) :
              i \in DOMAIN configuracoes_padrao }
    /\ seq = [atendimentos |-> 2, empresas |-> 2,
              configuracoes |-> Len(configuracoes_padrao)]
    /\ clock = 0
    /\ ret = Ret("init_db", TRUE, "inicializado", <<>>)
    /\ issued = {1, 2}
    /\ issuedSinceClear = {1, 2}
    /\ nops = 0
    /\ security_log = <<>>
    /\ leitor = LeitorParado
    /\ escopo = EscopoFechado
    /\ puro = PuroParado
    /\ arquivos = ArquivosVazio
    /\ ui = UiInicial

\* the user of the page presses "Excluir" and "Desfazer" while another
\* session deletes appointments
NextUi ==
    \/ get_all_appointments
    \/ \E fault \in Faults : \E i \in Ids(atendimentos) \cup {seq.atendimentos} :
          btn_delete_header(i, fault)
    \/ \E fault \in Faults : btn_undo_delete_header(fault)
    \/ \E i \in Ids(atendimentos) : excluir_atendimento(i, "none") /\ UNCHANGED sess

SpecUi == InitUi /\ [][NextUi]_vars

\* the calls the first session makes while the second one is inside
\* obter_estatisticas
InsertInputsSessao ==
    { a \in InsertInputs :
        a.data \in {d_05_01_2025, d_20_12_2024} /\ InsertOutcome(a, "none") = "inserido" }

UpdateInputsSessao == { campos \in UpdateInputs : DOMAIN campos = {"status"} }

\* two sessions: one inserts, updates and deletes, the other one computes
\* statistics
NextSessoes ==
    \/ \E a \in InsertInputsSessao : inserir_atendimento(a, "none") /\ UNCHANGED sess
    \/ \E i \in IdInputs : \E campos \in UpdateInputsSessao :
          atualizar_atendimento(i, campos, "none") /\ UNCHANGED sess
    \/ \E i \in IdInputs : excluir_atendimento(i, "none") /\ UNCHANGED sess
    \/ obter_estatisticas_passo

SpecSessoes == Init /\ [][NextSessoes]_vars

\* one get_db_connection block after the other, with any body
NextEscopo ==
    \/ \E fault \in FaultsEntrada : get_db_connection_entrada(fault)
    \/ \E a \in InsertInputsSessao : corpo_execute(a)
    \/ corpo_commit
    \/ \E fim \in Fins : corpo_fim(fim)
    \/ get_db_connection_saida

SpecEscopo == Init /\ [][NextEscopo]_vars

(***************************************************************************)
(* Properties                                                              *)
(***************************************************************************)
\* a zero-padded DD/MM/YYYY text naming an existing calendar day
DataCanonica(d) ==
    /\ Len(d) = 10
    /\ d[3] = "/" /\ d[6] = "/"
    /\ \A i \in {1, 2, 4, 5, 7, 8, 9, 10} : d[i] \in Digit
    /\ ParseDate(d) # {}

\* the step is a call of inserir_atendimento that returned True
InsertOk ==
    /\ ret'.op = "inserir_atendimento" /\ ret'.ok
    /\ \E a \in InsertInputs : inserir_atendimento(a, "none")

\* the id a successful insert assigned
NewId == CHOOSE i \in Ids(atendimentos') : i \notin Ids(atendimentos)

\* C1: listar_atendimentos without filters returns rows whose dates are valid
\* DD/MM/YYYY texts in descending calendar-date order and, for equal dates, in
\* descending time order.
C1_ListCalendarOrder ==
    ( /\ ret.op = "listar_atendimentos" /\ ret.ok /\ ret.log = "todos"
      /\ \A i \in DOMAIN ret.rows : DataCanonica(ret.rows[i].data) )
    => \A i, j \in DOMAIN ret.rows :
          i < j => ~OrderByCalendar(ret.rows[j], ret.rows[i])

\* C2: every stored appointment has a date and a time that pass the validators
\* (_validar_formato_data, _validar_formato_hora), whatever operations ran.
C2_StoredDatesValidated ==
    \A r \in atendimentos :
        _validar_formato_data(r.data) /\ _validar_formato_hora(r.hora)

\* C3 as claimed: the id a successful insert assigns was never assigned to an
\* earlier appointment, over any sequence of operations of the module.
C3_IdNeverReused == [][InsertOk => NewId \notin issued]_vars

\* C3 as amended: the id a successful insert assigns is larger than every id
\* assigned since limpar_dados_teste last emptied the store (or since the
\* store was created), so no id is reused unless limpar_dados_teste ran in
\* between, deleted rows included.
C3_IdFreshSinceClear ==
    [][InsertOk => \A i \in issuedSinceClear \cup Ids(atendimentos) : NewId > i]_vars

\* an insert succeeded after a row with an id assigned since the last clear
\* was deleted
C3_Witness ==
    /\ ret.op = "inserir_atendimento" /\ ret.ok
    /\ issuedSinceClear \ Ids(atendimentos) # {}

\* C5: inserir_atendimento called with a date that fails
\* _validar_formato_data or a time that fails _validar_formato_hora returns
\* False and leaves the tables atendimentos and empresas as they were.
C5_InvalidInsertRejected ==
    [][\A a \in InsertInputs, fault \in Faults :
         ( /\ ret'.op = "inserir_atendimento"
           /\ ~(_validar_formato_data(a.data) /\ _validar_formato_hora(a.hora))
           /\ inserir_atendimento(a, fault) )
         => /\ ret'.ok = FALSE
            /\ atendimentos' = atendimentos
            /\ empresas' = empresas]_vars

\* an insert with a valid date and an invalid time has been rejected
C5_Witness == ret.op = "inserir_atendimento" /\ ret.log = "formato_hora"

\* C6: a successful insert adds exactly one row, with a new id, status
\* Agendado and the supplied modality, date, time, report reference,
\* evaluation reference and notes; every row stored before is unchanged.
C6_InsertAddsOneRow ==
    [][\A a \in InsertInputs :
         ( /\ ret'.op = "inserir_atendimento" /\ ret'.ok
           /\ inserir_atendimento(a, "none") )
         => \E r \in atendimentos' :
               /\ r \notin atendimentos
               /\ atendimentos' = atendimentos \cup {r}
               /\ r.id \notin Ids(atendimentos)
               /\ r.status = Agendado
               /\ r.modalidade = a.modalidade
               /\ r.data = a.data /\ r.hora = a.hora
               /\ r.laudo_pdf = a.laudo_pdf
               /\ r.avaliacao_pdf = a.avaliacao_pdf
               /\ r.observacoes = a.observacoes]_vars

\* an insert carrying a report reference and notes succeeded on a store that
\* already held a row
C6_Witness ==
    /\ ret.op = "inserir_atendimento" /\ ret.ok
    /\ \E r \in atendimentos :
          /\ r.id = seq.atendimentos
          /\ r.observacoes = obs_text /\ r.laudo_pdf = laudo_ref
          /\ \E q \in atendimentos : q.id < r.id

\* C7: a successful update(id, fields) changes in the row with that id only
\* columns named in fields, and data_atualizacao; id and data_criacao never
\* change, and every other row is untouched.
C7_UpdateFrame ==
    [][\A i \in IdInputs, campos \in UpdateInputs :
         ( /\ ret'.op = "atualizar_atendimento" /\ ret'.ok
           /\ atualizar_atendimento(i, campos, "none") )
         => /\ Ids(atendimentos') = Ids(atendimentos)
            /\ \A r \in atendimentos : r.id # i => r \in atendimentos'
            /\ \A c \in Colunas \ {"data_atualizacao"} :
                  \/ Row(atendimentos', i)[c] = Row(atendimentos, i)[c]
                  \/ c \in DOMAIN campos \ {"id", "data_criacao"}]_vars

\* an update of the status alone succeeded while another row was stored
C7_Witness ==
    /\ ret.op = "atualizar_atendimento" /\ ret.ok
    /\ Cardinality(atendimentos) >= 2
    /\ \E r \in atendimentos : r.status = Concluido
    /\ \E r \in atendimentos : r.status = Agendado

\* C8: update and delete called with an id that is not stored return False
\* and leave the store unchanged; they return True only when a row with that
\* id was stored when they were called.
C8_AbsentIdIsFalse ==
    [][/\ \A i \in IdInputs, campos \in UpdateInputs, fault \in Faults :
            (ret'.op = "atualizar_atendimento" /\ atualizar_atendimento(i, campos, fault))
            => /\ i \notin Ids(atendimentos) => (ret'.ok = FALSE /\ UNCHANGED store)
               /\ ret'.ok => i \in Ids(atendimentos)
       /\ \A i \in IdInputs, fault \in Faults :
            (ret'.op = "excluir_atendimento" /\ excluir_atendimento(i, fault))
            => /\ i \notin Ids(atendimentos) => (ret'.ok = FALSE /\ UNCHANGED store)
               /\ ret'.ok => i \in Ids(atendimentos)]_vars

\* a delete of an id that is not stored returned False while rows were stored
C8_Witness ==
    /\ ret.op = "excluir_atendimento" /\ ret.log = "nao_encontrado"
    /\ atendimentos # {}

\* C9 as claimed: for a stored id, names outside the allow-list never make
\* the update return False when the store does not fail.
C9_UnknownNeverFalse ==
    [][\A i \in Ids(atendimentos), campos \in UpdateInputs :
         ( /\ atualizar_atendimento(i, campos, "none")
           /\ DOMAIN campos \ campos_validos # {} )
         => ret'.ok = TRUE]_vars

\* C9 as amended: for a stored id and no storage failure, names outside the
\* allow-list change no column; the update returns True and writes the
\* allow-listed fields when at least one is supplied with them (and none sets
\* a NOT NULL column to NULL), and returns False and writes nothing when every
\* supplied name is outside the allow-list.
C9_UnknownIgnored ==
    [][\A i \in Ids(atendimentos), campos \in UpdateInputs :
         ( /\ ret'.op = "atualizar_atendimento"
           /\ DOMAIN campos \ campos_validos # {}
           /\ atualizar_atendimento(i, campos, "none") )
         => /\ ret'.ok = (DOMAIN campos \cap campos_validos # {}
                            /\ ~NullViolation(campos))
            /\ ~ret'.ok => UNCHANGED store
            /\ ret'.ok =>
                 \A c \in Colunas \ {"data_atualizacao"} :
                    Row(atendimentos', i)[c] =
                       IF c \in DOMAIN campos \cap campos_validos
                       THEN campos[c] ELSE Row(atendimentos, i)[c]]_vars

\* an update naming status together with names outside the allow-list
\* succeeded: no other call explored writes the status Cancelado
C9_Witness ==
    /\ ret.op = "atualizar_atendimento" /\ ret.ok
    /\ \E r \in atendimentos : r.status = Cancelado

RECURSIVE SomaContagens(_)
SomaContagens(s) == IF s = <<>> THEN 0 ELSE s[1][2] + SomaContagens(Tail(s))

\* the last call was obter_estatisticas and it returned its dictionary
EstatisticasOk == ret.op = "obter_estatisticas" /\ ret.ok

\* C11: obter_estatisticas returns total_atendimentos = number of stored
\* appointments, total_empresas = number of distinct empresa values among
\* them, laudos_enviados = number of rows whose laudo_pdf is not NULL and
\* avaliacoes_enviadas = number of rows whose avaliacao_pdf is not NULL.
C11_SnapshotCounts ==
    EstatisticasOk =>
        /\ ret.rows.total_atendimentos = Cardinality(atendimentos)
        /\ ret.rows.total_empresas = Cardinality({ r.empresa : r \in atendimentos })
        /\ ret.rows.laudos_enviados =
              Cardinality({ r \in atendimentos : r.laudo_pdf # NULL })
        /\ ret.rows.avaliacoes_enviadas =
              Cardinality({ r \in atendimentos : r.avaliacao_pdf # NULL })

\* a snapshot of three rows of two companies, one of them with a report
C11_Witness ==
    /\ EstatisticasOk
    /\ ret.rows.total_atendimentos = 3
    /\ ret.rows.total_empresas = 2
    /\ ret.rows.laudos_enviados = 1

\* one entry per distinct value of the column, in non-increasing count
\* order, the counts adding up to the total
MapaAgrupado(m, col) ==
    /\ { m[i][1] : i \in DOMAIN m } = { r[col] : r \in atendimentos }
    /\ \A i, j \in DOMAIN m : i # j => m[i][1] # m[j][1]
    /\ \A i, j \in DOMAIN m : i < j => m[i][2] >= m[j][2]
    /\ SomaContagens(m) = ret.rows.total_atendimentos

\* C12: in every snapshot the modality mapping and the status mapping hold
\* one entry per distinct value present in the store, in non-increasing count
\* order, and the counts of each mapping sum to total_atendimentos.
C12_SnapshotGroups ==
    EstatisticasOk =>
        /\ MapaAgrupado(ret.rows.modalidades, "modalidade")
        /\ MapaAgrupado(ret.rows.status_distribuicao, "status")

\* a snapshot whose modality mapping has two entries of different counts
C12_Witness ==
    /\ EstatisticasOk
    /\ Len(ret.rows.modalidades) = 2
    /\ ret.rows.modalidades[1][2] > ret.rows.modalidades[2][2]

\* the step is a call of inserir_atendimento
InsertCall ==
    /\ ret'.op = "inserir_atendimento"
    /\ \E a \in InsertInputs, fault \in InsertFaults : inserir_atendimento(a, fault)

\* C14: inserir_atendimento is all-or-nothing: it commits the appointment
\* row together with the registration of its company in empresas, or it
\* commits neither.
C14_InsertAllOrNothing ==
    [][InsertCall =>
         \/ atendimentos' = atendimentos /\ empresas' = empresas
         \/ \E r \in atendimentos' \ atendimentos :
               \E e \in empresas' : e.nome = r.empresa]_vars

\* the step is a call of inserir_atendimento, atualizar_atendimento or
\* excluir_atendimento
MutatingCall ==
    \/ InsertCall
    \/ /\ ret'.op = "atualizar_atendimento"
       /\ \E i \in IdInputs, campos \in UpdateInputs, fault \in Faults :
             atualizar_atendimento(i, campos, fault)
    \/ /\ ret'.op = "excluir_atendimento"
       /\ \E i \in IdInputs, fault \in Faults : excluir_atendimento(i, fault)

\* C17: every call of inserir_atendimento, atualizar_atendimento or
\* excluir_atendimento appends at least one record to the audit log through
\* log_access.
C17_MutationsAudited ==
    [][MutatingCall => Len(security_log') > Len(security_log)]_vars

\* C18: the stored empresa, nome and observacoes of every appointment are
\* sanitized texts: each is what sanitize_input returns for it, so it holds
\* no denied character, no run of whitespace, and is within the length cap.
\* (A text that is the sanitize_input of the caller's input has this form,
\* sanitize_input being idempotent.)
C18_StoredTextSanitized ==
    \A r \in atendimentos : \A c \in {"empresa", "nome", "observacoes"} :
        r[c] # NULL => r[c] = sanitize_input(r[c], max_length)

\* C19: every stored appointment has an empresa and a nome that are neither
\* empty nor only whitespace.
C19_CompanyAndNameNonEmpty ==
    \A r \in atendimentos : Strip(r.empresa) # <<>> /\ Strip(r.nome) # <<>>

\* C20: every stored appointment has its modalidade among Admissional,
\* Periodico, Demissional, Retorno and its status among Agendado, Concluido,
\* Cancelado.
C20_EnumsRespected ==
    \A r \in atendimentos :
        r.modalidade \in Modalidades /\ r.status \in StatusValidos

\* C16: init_db on an initialised store returns True, leaves no two
\* configuration rows with the same key, and leaves every appointment, company
\* and configuration row (those changed by definir_configuracao included) and
\* the id sequences as they were.
C16_InitDbIdempotent ==
    [][(ret'.op = "init_db" /\ init_db("none"))
         => /\ ret'.ok
            /\ store' = store
            /\ \A c1, c2 \in configuracoes' : c1.chave = c2.chave => c1 = c2]_vars

\* init_db returned True on a store holding an appointment, a company, a
\* default key whose value definir_configuracao changed and a key it added
C16_Witness ==
    /\ ret.op = "init_db" /\ ret.ok
    /\ atendimentos # {} /\ empresas # {}
    /\ \E c \in configuracoes : c.chave = clinica_nome /\ c.valor = <<"X">>
    /\ \E c \in configuracoes : c.chave = <<"nova">>

\* C13: the dictionary obter_estatisticas returns describes one store state
\* even when other sessions commit between its queries: total_atendimentos
\* equals the sum of the modality counts and the sum of the status counts.
C13_SnapshotPointInTime ==
    EstatisticasOk =>
        /\ SomaContagens(ret.rows.modalidades) = ret.rows.total_atendimentos
        /\ SomaContagens(ret.rows.status_distribuicao) = ret.rows.total_atendimentos

\* the step is the exit of a get_db_connection block whose body has ended
SaidaDoEscopo == escopo.pc = "saida" /\ escopo'.pc = "fora"

TemEvento(ev, e) == \E i \in DOMAIN ev : ev[i] = e

\* C15 as claimed: when the body of a get_db_connection block ends without
\* error the block commits what the body wrote, and when it ends with an
\* error the block rolls back; either way it closes the connection.
C15_ScopeCommitsOrRollsBack ==
    [][SaidaDoEscopo =>
         /\ escopo.erro = "return" => escopo.pend \subseteq atendimentos'
         /\ escopo.erro # "return" => TemEvento(escopo'.eventos, "rollback")
         /\ escopo'.conn = "fechada"]_vars

\* C15 as amended: the block itself never commits -- leaving it changes no
\* table, and what the body wrote and did not commit is discarded; it calls
\* rollback exactly when the body raised sqlite3.Error; it re-raises whatever
\* the body raised; and it closes the connection on every path.
C15_ScopeProtocol ==
    [][SaidaDoEscopo =>
         /\ store' = store
         /\ escopo'.pend = {}
         /\ escopo'.conn = "fechada"
         /\ ~TemEvento(SubSeq(escopo'.eventos, Len(escopo.eventos) + 1,
                              Len(escopo'.eventos)), "commit")
         /\ TemEvento(escopo'.eventos, "rollback") <=> escopo.erro = "sqlite3.Error"
         /\ TemEvento(escopo'.eventos, "raise") <=> escopo.erro # "return"
         /\ ret'.ok <=> escopo.erro = "return"]_vars

\* a block was left whose body executed and committed one statement, executed
\* another one and then raised an exception that is not sqlite3.Error
C15_Witness ==
    /\ escopo.pc = "fora"
    /\ escopo.eventos = <<"open", "execute", "commit", "execute", "close", "raise">>
    /\ Cardinality(atendimentos) = 1

C22_NoExceptionPropagates ==
    [][/\ ret'.log # "propaga"
       /\ ~ret'.ok => (ret'.rows = <<>> /\ UNCHANGED store)]_vars

\* inserir_atendimento returned False for a company that is None, on a store
\* that holds an appointment and a changed configuration
C22_Witness ==
    /\ ret = Ret("inserir_atendimento", FALSE, "AttributeError", <<>>)
    /\ atendimentos # {}
    /\ \E c \in configuracoes : c.valor = <<"X">>

\* C23: two calls of safe_filename with the same argument never return the
\* same name, and no file saved by the upload form replaces one saved before:
\* the uploads directory holds one file per file saved.
C23_SafeFilenameUnique ==
    /\ \A i, j \in DOMAIN arquivos.nomes :
          (i # j /\ arquivos.nomes[i].filename = arquivos.nomes[j].filename)
          => arquivos.nomes[i].nome # arquivos.nomes[j].nome
    /\ Cardinality(arquivos.uploads) = arquivos.salvos

\* the text holds no denied character
SemNegados(t) == \A i \in DOMAIN t : t[i] \notin Denylist

\* the text neither starts nor ends with whitespace and holds no run of it
SemEspacosExtras(t) ==
    /\ t # <<>> => (t[1] # " " /\ t[Len(t)] # " ")
    /\ \A i \in 1..(Len(t) - 1) : ~(t[i] = " " /\ t[i + 1] = " ")

\* sanitize_input has been applied to a text
SanitizeFeito == puro.f = "sanitize_input" /\ puro.arg.input_str # NULL

\* C24 as claimed: sanitize_input returns the text with the denied
\* characters removed, then each whitespace run collapsed to one space, then
\* trimmed, and only then cut to max_length characters; the result holds no
\* denied character and at most max_length characters.
C24_SanitizeCutsLast ==
    (SanitizeFeito /\ puro.arg.max_length >= 0) =>
        /\ puro.res = Truncar(Strip(Colapsar(Remover(puro.arg.input_str))),
                              puro.arg.max_length)
        /\ SemNegados(puro.res)
        /\ Len(puro.res) <= puro.arg.max_length

\* C24 as amended: sanitize_input removes the denied characters, cuts to
\* max_length characters, and only then collapses each whitespace run to one
\* space and trims; the result holds no denied character, no whitespace at
\* either end and no whitespace run, and at most max_length characters when
\* max_length is not negative.  None gives the empty text.
C24_SanitizeCutsFirst ==
    /\ SanitizeFeito =>
          /\ puro.res = Strip(Colapsar(Truncar(Remover(puro.arg.input_str),
                                                puro.arg.max_length)))
          /\ SemNegados(puro.res)
          /\ SemEspacosExtras(puro.res)
          /\ puro.arg.max_length >= 0 => Len(puro.res) <= puro.arg.max_length
    /\ (puro.f = "sanitize_input" /\ puro.arg.input_str = NULL) => puro.res = <<>>

\* sanitize_input cut a text inside a whitespace run that followed a denied
\* character, and returned less than max_length characters
C24_Witness ==
    /\ SanitizeFeito
    /\ puro.arg.input_str = <<"<", "a", " ", " ">>
    /\ puro.arg.max_length = 2
    /\ puro.res = <<"a">>

\* DD/MM/YYYY with a two-digit day, a two-digit month and a four-digit year
\* that name an existing calendar day
DataZeroPadded(t) ==
    /\ Len(t) = 10
    /\ t[3] = "/" /\ t[6] = "/"
    /\ \A i \in {1, 2, 4, 5, 7, 8, 9, 10} : t[i] \in Digit
    /\ LET d == TokVal(SubSeq(t, 1, 2))
           m == TokVal(SubSeq(t, 4, 5))
           y == TokVal(SubSeq(t, 7, 10))
       IN  y >= 1 /\ m \in 1..12 /\ d >= 1 /\ d <= DaysInMonth(y, m)

\* C25: the date validator returns True exactly for a text of the form
\* DD/MM/YYYY with a zero-padded two-digit day, a zero-padded two-digit month
\* and a four-digit year that names an existing calendar day; a text with a
\* one-digit day or month, or with another separator, is rejected.
C25_DateValidatorStrict ==
    puro.f = "validate_date_input" =>
        (puro.res <=> DataZeroPadded(puro.arg.date_str))

\* HH:MM with a two-digit hour 00-23 and a two-digit minute 00-59
HoraZeroPadded(t) ==
    /\ Len(t) = 5
    /\ t[3] = ":"
    /\ \A i \in {1, 2, 4, 5} : t[i] \in Digit
    /\ TokVal(SubSeq(t, 1, 2)) \in 0..23
    /\ TokVal(SubSeq(t, 4, 5)) \in 0..59

\* C26: the time validator returns True exactly for a zero-padded 24-hour
\* HH:MM text with hour 00-23 and minute 00-59; a text that is not
\* zero-padded is rejected.
C26_TimeValidatorStrict ==
    puro.f = "validate_time_input" =>
        (puro.res <=> HoraZeroPadded(puro.arg.time_str))

\* the bytes value holds the text somewhere
Contem(b, t) ==
    \E i \in 1..Len(b.inicio) :
        i + Len(t) - 1 <= Len(b.inicio) /\ SubSeq(b.inicio, i, i + Len(t) - 1) = t

\* C27: validate_pdf_content returns True exactly when the content starts
\* with the bytes %PDF-, is at most 10 * 1024 * 1024 bytes long and holds none
\* of /JavaScript, /JS, /OpenAction, /Launch; it returns False in every other
\* case, a content that is no bytes value included, and never raises.
C27_PdfValidator ==
    puro.f = "validate_pdf_content" =>
        /\ puro.res.raise = "nenhuma"
        /\ puro.res.ret <=>
              /\ puro.arg.tipo = "bytes"
              /\ Len(puro.arg.inicio) >= 5
              /\ SubSeq(puro.arg.inicio, 1, 5) = <<"%", "P", "D", "F", "-">>
              /\ Len(puro.arg.inicio) + puro.arg.zeros <= 10485760
              /\ ~Contem(puro.arg, <<"/", "J", "a", "v", "a", "S", "c", "r", "i", "p", "t">>)
              /\ ~Contem(puro.arg, <<"/", "J", "S">>)
              /\ ~Contem(puro.arg, <<"/", "O", "p", "e", "n", "A", "c", "t", "i", "o", "n">>)
              /\ ~Contem(puro.arg, <<"/", "L", "a", "u", "n", "c", "h">>)

\* a content of exactly 10 MiB that starts with %PDF- and holds /J and no
\* pattern was accepted
C27_Witness ==
    /\ puro.f = "validate_pdf_content"
    /\ puro.res.ret
    /\ LenBytes(puro.arg) = 10485760
    /\ puro.arg.inicio = <<"%", "P", "D", "F", "-", "/", "J">>

\* the calendar day a valid date text names, as one number
DataKey(t) ==
    LET k == CHOOSE x \in ParseDate(t) : TRUE
    IN  k[3] * 10000 + k[2] * 100 + k[1]

\* C28: obter_relatorio_periodo(data_inicio, data_fim), given two valid
\* DD/MM/YYYY dates with data_inicio not after data_fim, returns exactly the
\* stored appointments whose calendar date lies in the inclusive period from
\* data_inicio to data_fim.
C28_ReportByCalendarPeriod ==
    [][\A p \in PeriodoInputs :
         ( /\ ret'.op = "obter_relatorio_periodo" /\ ret'.ok
           /\ DataCanonica(p.data_inicio) /\ DataCanonica(p.data_fim)
           /\ DataKey(p.data_inicio) <= DataKey(p.data_fim)
           /\ obter_relatorio_periodo(p, "none") )
         => { ret'.rows[i].id : i \in DOMAIN ret'.rows } =
               { r.id : r \in { q \in atendimentos :
                                  /\ DataKey(p.data_inicio) <= DataKey(q.data)
                                  /\ DataKey(q.data) <= DataKey(p.data_fim) } }]_vars

\* the step is "Desfazer" re-inserting the snapshot
DesfazerOk == ui.last_deleted_snapshot # {} /\ ui'.last_deleted_snapshot = {}

\* the appointment "Excluir" was last pressed for
Excluido == CHOOSE r \in ui.antes :
                \E snap \in ui.last_deleted_snapshot : r.id = snap["ID"]

\* C29: delete followed by undo is a round trip up to the id: when
\* "Desfazer" re-inserts the appointment that "Excluir" has just deleted,
\* nothing else having been written in between, the table holds the rows it
\* held before the delete, except that the restored row has a new id; its
\* empresa, nome, modalidade, data, hora, laudo_pdf, avaliacao_pdf, status and
\* observacoes are those of the deleted row.
C29_DeleteUndoRoundTrip ==
    [][(DesfazerOk /\ ui.excluiu /\ nops = ui.antes_nops + 1)
         => \E r \in atendimentos' :
               /\ r.id \notin Ids(ui.antes)
               /\ atendimentos' \ {r} = ui.antes \ {Excluido}
               /\ \A c \in campos_validos : r[c] = Excluido[c]]_vars

\* C30: undo re-inserts only what a delete removed: session_state holds a
\* snapshot only when delete_appointment returned True for it, and when
\* "Desfazer" re-inserts it, nothing else having been written since "Excluir"
\* was pressed, the table holds no more rows than it did before "Excluir" was
\* pressed.
C30_UndoOnlyAfterDelete ==
    [][/\ ui'.last_deleted_snapshot # {} => ui'.excluiu
       /\ ( /\ DesfazerOk
            /\ nops = ui.antes_nops + (IF ui.excluiu THEN 1 ELSE 0) )
          => Cardinality(atendimentos') <= Cardinality(ui.antes)]_vars

=============================================================================
